---- MODULE Spec2Model ----
(***************************************************************************)
(* A model of the go-nmea sentence decoders: the coordinate model          *)
(* (ParseDM, DM, ToDM, CardinalPoint), the enumeration parsers and the     *)
(* parse()/Serialize() pair of every concrete sentence type.               *)
(*                                                                         *)
(* Strings are TLA+ strings, read one character at a time with SubSeq.     *)
(* A float64 is modelled exactly, as a sign, an integer part and a         *)
(* fraction counted in millionths (the precision of ToDM's "%09.6f"), or   *)
(* as NaN: TLC's integers are 32 bits wide, so a coordinate is kept as     *)
(* whole degrees plus millionths of a minute.                              *)
(***************************************************************************)
EXTENDS Integers, Sequences, FiniteSets, TLC

VARIABLES
    pc,        \* "ready": an input was chosen; "parsed", "done": the calls made
    op,        \* the entry point this run calls
    raw,       \* ParseDM: the string handed in
    dmOut,     \* ParseDM: what it returned
    coord,     \* ToDM / CardinalPoint: the LatLong receiver
    isLat,     \* CardinalPoint's isLatitude argument
    wire,      \* ToDM() + " " + CardinalPoint(): the wire form of coord
    tok,       \* an enumeration parser's input token
    enumOut,   \* an enumeration parser's result
    Fields,    \* Message.Fields of the frame handed to parse()
    sent,      \* the typed fields of the sentence
    perr,      \* what parse() returned: NoErr, an error, or a run-time panic
    out,       \* the field list Serialize() builds
    dms        \* DMS: the degrees, minutes and seconds it returned

vars == <<pc, op, raw, dmOut, coord, isLat, wire, tok, enumOut, Fields, sent, perr, out, dms>>

(***************************************************************************)
(* strings                                                                 *)
(***************************************************************************)
At(s, i) == SubSeq(s, i, i)

DigitChars == {"0", "1", "2", "3", "4", "5", "6", "7", "8", "9"}

DigitVal(c) ==
    CASE c = "0" -> 0 [] c = "1" -> 1 [] c = "2" -> 2 [] c = "3" -> 3
      [] c = "4" -> 4 [] c = "5" -> 5 [] c = "6" -> 6 [] c = "7" -> 7
      [] c = "8" -> 8 [] c = "9" -> 9 [] OTHER -> 0

DigitChar(n) ==
    CASE n = 0 -> "0" [] n = 1 -> "1" [] n = 2 -> "2" [] n = 3 -> "3"
      [] n = 4 -> "4" [] n = 5 -> "5" [] n = 6 -> "6" [] n = 7 -> "7"
      [] n = 8 -> "8" [] OTHER -> "9"

AllDigits(s) == \A i \in 1..Len(s) : At(s, i) \in DigitChars

RECURSIVE StrToNat(_)
StrToNat(s) ==
    IF Len(s) = 0 THEN 0
    ELSE StrToNat(SubSeq(s, 1, Len(s) - 1)) * 10 + DigitVal(At(s, Len(s)))

RECURSIVE NatToStr(_)
NatToStr(n) ==
    IF n < 10 THEN DigitChar(n) ELSE NatToStr(n \div 10) \o DigitChar(n % 10)

RECURSIVE Pow10(_)
Pow10(k) == IF k = 0 THEN 1 ELSE 10 * Pow10(k - 1)

\* fmt's zero padding to a minimum width (the "0" flag)
RECURSIVE PadZero(_, _)
PadZero(s, w) == IF Len(s) >= w THEN s ELSE PadZero("0" \o s, w)

\* strings.Trim(s, cutset) for a one-character cutset
RECURSIVE TrimLeft(_, _)
TrimLeft(s, c) ==
    IF Len(s) > 0 /\ At(s, 1) = c THEN TrimLeft(SubSeq(s, 2, Len(s)), c) ELSE s

RECURSIVE TrimRight(_, _)
TrimRight(s, c) ==
    IF Len(s) > 0 /\ At(s, Len(s)) = c THEN TrimRight(SubSeq(s, 1, Len(s) - 1), c) ELSE s

Trim(s, c) == TrimRight(TrimLeft(s, c), c)

\* strings.TrimSpace; the space is the only white space of the inputs
TrimSpace(s) == Trim(s, " ")

\* strings.Join
RECURSIVE Join(_, _)
Join(ss, sep) ==
    IF Len(ss) = 0 THEN ""
    ELSE IF Len(ss) = 1 THEN ss[1]
    ELSE ss[1] \o sep \o Join(Tail(ss), sep)

\* the position of the first c in s, 0 when there is none
RECURSIVE IndexOf(_, _, _)
IndexOf(s, c, i) ==
    IF i > Len(s) THEN 0 ELSE IF At(s, i) = c THEN i ELSE IndexOf(s, c, i + 1)

(***************************************************************************)
(* float64, as far as the decoders use it                                  *)
(***************************************************************************)
\* the number of fractional digits of minutes ToDM writes ("%09.6f")
FracDigits == 6
\* one unit of a fraction: 10^-FracDigits
Scale == Pow10(FracDigits)

NaN == [kind |-> "nan", neg |-> FALSE, ip |-> 0, fp |-> 0]
Inf(neg) == [kind |-> "inf", neg |-> neg, ip |-> 0, fp |-> 0]
\* sign * (ip + fp / Scale); a zero carries no sign
Fin(neg, ip, fp) ==
    [kind |-> "fin", neg |-> neg /\ (ip > 0 \/ fp > 0), ip |-> ip, fp |-> fp]

\* the digits after the point, as a count of 10^-FracDigits: the digits past
\* FracDigits are below the precision of the wire and are dropped
FracVal(f) ==
    IF Len(f) >= FracDigits THEN StrToNat(SubSeq(f, 1, FracDigits))
    ELSE StrToNat(f) * Pow10(FracDigits - Len(f))

\* strconv.ParseFloat(s, 64) on decimal text: an optional sign, digits with an
\* optional point and at least one digit, or one of the special values NaN and
\* Inf. (Exponents, hexadecimal floats and underscores do not occur in the inputs.)
ParseFloat(s) ==
    LET sign == IF Len(s) > 0 /\ At(s, 1) \in {"+", "-"} THEN At(s, 1) ELSE ""
        body == IF sign = "" THEN s ELSE SubSeq(s, 2, Len(s))
        dot  == IndexOf(body, ".", 1)
        ipt  == IF dot = 0 THEN body ELSE SubSeq(body, 1, dot - 1)
        fpt  == IF dot = 0 THEN "" ELSE SubSeq(body, dot + 1, Len(body))
    IN  IF s \in {"NaN", "nan", "NAN"} THEN [ok |-> TRUE, v |-> NaN]
        ELSE IF body \in {"Inf", "inf", "INF", "Infinity", "infinity"}
            THEN [ok |-> TRUE, v |-> Inf(sign = "-")]
        ELSE IF AllDigits(ipt) /\ AllDigits(fpt) /\ Len(ipt) + Len(fpt) > 0
            THEN [ok |-> TRUE, v |-> Fin(sign = "-", StrToNat(ipt), FracVal(fpt))]
        ELSE [ok |-> FALSE, v |-> Fin(FALSE, 0, 0)]

\* strconv.Atoi / ParseInt(s, 10, 0): an optional sign and decimal digits
ParseInt(s) ==
    LET sign == IF Len(s) > 0 /\ At(s, 1) \in {"+", "-"} THEN At(s, 1) ELSE ""
        body == IF sign = "" THEN s ELSE SubSeq(s, 2, Len(s))
    IN  IF Len(body) > 0 /\ AllDigits(body)
            THEN [ok |-> TRUE, v |-> IF sign = "-" THEN 0 - StrToNat(body) ELSE StrToNat(body)]
        ELSE [ok |-> FALSE, v |-> 0]

(***************************************************************************)
(* CardinalPoint and LatLong                                               *)
(***************************************************************************)
North == "N"
South == "S"
East == "E"
West == "W"

\* CardinalPoint.String
CardinalPointString(c) == c

ParseCardinalPoint(r) ==
    [cp |-> r, err |-> IF r \in {North, South, East, West} THEN "nil" ELSE "unknow value"]

MaxLong == 180
MaxLat == 90

\* A LatLong: sign * (deg + um / (60 * Scale)) degrees with 0 <= um < 60 * Scale,
\* or NaN. Zero carries no sign.
LL(neg, deg, um) ==
    [kind |-> "fin", neg |-> neg /\ (deg > 0 \/ um > 0), deg |-> deg, um |-> um]
LLNaN == [kind |-> "nan", neg |-> FALSE, deg |-> 0, um |-> 0]
LLZero == LL(FALSE, 0, 0)

IsZero(l) == l.kind = "fin" /\ l.deg = 0 /\ l.um = 0
IsNeg(l) == l.kind = "fin" /\ l.neg
\* 0 - l
Negate(l) == IF l.kind = "nan" THEN l ELSE LL(~l.neg, l.deg, l.um)
\* math.Abs(l) > max; false of NaN
AbsExceeds(l, max) == l.kind = "fin" /\ (l.deg > max \/ (l.deg = max /\ l.um > 0))

\* d + m/60 for whole degrees d of either sign and m >= 0 minutes (mu = m * Scale)
DegPlusMin(d, mu) ==
    LET q == d + (mu \div (60 * Scale))
        r == mu % (60 * Scale)
    IN  IF q >= 0 THEN LL(FALSE, q, r)
        ELSE IF r = 0 THEN LL(TRUE, 0 - q, 0)
        ELSE LL(TRUE, (0 - q) - 1, 60 * Scale - r)

\* ParseDM's "Compute LatLong": d := Floor(dm/100); m := dm - d*100; dm = d + m/60
ComputeLatLong(f) ==
    IF f.kind # "fin" THEN LLNaN    \* Floor(Inf) = Inf, Inf - Inf*100 = NaN
    ELSE IF ~f.neg THEN DegPlusMin(f.ip \div 100, (f.ip % 100) * Scale + f.fp)
    ELSE LET up == (f.ip \div 100) + (IF f.ip % 100 > 0 \/ f.fp > 0 THEN 1 ELSE 0)
         IN  DegPlusMin(0 - up, (up * 100 - f.ip) * Scale - f.fp)

\* the text ParseDM hands to ParseFloat
DMNumber(r) == TrimSpace(SubSeq(r, 1, Len(r) - 2))

ParseDM(r) ==
    LET f   == ParseFloat(DMNumber(r))
        dir == ParseCardinalPoint(At(r, Len(r)))
        dm  == ComputeLatLong(f.v)
        max == IF dir.cp \in {North, South} THEN MaxLat ELSE MaxLong
    IN  IF Len(r) < 2 THEN [err |-> "Wrong DM format", v |-> LLZero]
        ELSE IF ~f.ok THEN [err |-> "ParseFloat", v |-> LLZero]
        ELSE IF dir.err # "nil" THEN [err |-> dir.err, v |-> LLZero]
        ELSE IF AbsExceeds(dm, max) THEN [err |-> "invalid range", v |-> LLZero]
        ELSE IF dir.cp \in {North, East} THEN [err |-> "nil", v |-> dm]
        ELSE [err |-> "nil", v |-> Negate(dm)]

NewLatLong(r) ==
    IF TrimSpace(r) = "" THEN [err |-> "can't be empty", v |-> LLZero] ELSE ParseDM(r)

\* LatLong.CardinalPoint
CardinalPoint(l, isLatitude) ==
    IF IsZero(l) THEN ""
    ELSE IF IsNeg(l) THEN (IF isLatitude THEN South ELSE West)
    ELSE IF isLatitude THEN North ELSE East

\* LatLong.DM: the degrees, Floor(l) or Ceil(l) as an int, and the minutes
DM(l) == [d |-> IF l.neg THEN 0 - l.deg ELSE l.deg, m |-> l.um]

\* fmt.Sprintf("%02d", d): the sign counts in the width
Sprintf02d(d) ==
    IF d < 0 THEN "-" \o PadZero(NatToStr(0 - d), 1) ELSE PadZero(NatToStr(d), 2)

\* fmt.Sprintf("%09.6f", m) for m >= 0
Sprintf096f(mu) ==
    PadZero(NatToStr(mu \div Scale) \o "." \o PadZero(NatToStr(mu % Scale), FracDigits), 9)

\* LatLong.ToDM
ToDM(l) ==
    IF IsZero(l) THEN ""
    ELSE Trim(Sprintf02d(DM(l).d) \o Sprintf096f(DM(l).m), "0")

\* LatLong.DMS: the degrees of DM(), its minutes floored, and the seconds, kept
\* as a signed count of millionths of a second: (l - (d + m/60)) * 3600 for
\* l >= 0 and (l + (|d| + m/60)) * 3600 for l < 0
DMS(l) ==
    LET d   == DM(l).d
        m   == DM(l).m \div Scale
        rem == DM(l).m - m * Scale
    IN  [d |-> d, m |-> m, s |-> IF IsNeg(l) THEN 0 - rem * 60 ELSE rem * 60]

(***************************************************************************)
(* The inputs, and the state before any call                               *)
(***************************************************************************)
\* the largest whole degree of the coordinates handed to ToDM
MaxDeg == 181

NoErr == [kind |-> "nil", at |-> 0 - 1, index |-> 0 - 1, got |-> "", want |-> ""]
NoDM == [err |-> "nil", v |-> LLZero]
NoEnum == [iv |-> 0, sv |-> "", err |-> "nil"]
NoDMS == [d |-> 0, m |-> 0, s |-> 0]
\* no sentence allocated
ZeroSentence == [none |-> TRUE]

\* the degrees, minutes and fractions the strings handed to ParseDM are built of
DegTexts ==
    {""} \cup {NatToStr(d) : d \in {0, 1, 31, 89, 90, 91, 121, 179, 180, 181}}
         \cup {PadZero(NatToStr(d), 2) : d \in {0, 1}}
MinTexts == {"00", "30", "59", "60"}
FracTexts == {"", ".", ".0", ".5", ".01", ".7238", ".000001"}
NumberTexts ==
    {sg \o d \o m \o f : sg \in {"", "-"}, d \in DegTexts, m \in MinTexts, f \in FracTexts}
        \cup {"", ".", "x", "NaN", "Inf", "-Inf"}
LetterTexts == {"N", "S", "E", "W", "X", ""}
RawInputs == {n \o sp \o c : n \in NumberTexts, sp \in {"", " "}, c \in LetterTexts}

\* the minutes of the coordinates handed to ToDM, in units of 1/Scale
MinuteSamples == {0, 1, 500000, 11290800, 30 * Scale, 59999999}
AxisMax(lat) == IF lat THEN MaxLat ELSE MaxLong
\* every non-zero coordinate of the samples within its axis range
Coords(lat) ==
    {c \in {LL(n, d, mu) : n \in BOOLEAN, d \in 0..MaxDeg, mu \in MinuteSamples} :
        ~IsZero(c) /\ ~AbsExceeds(c, AxisMax(lat))}

(***************************************************************************)
(* The coordinate model                                                    *)
(***************************************************************************)
InitParseDM ==
    /\ pc = "ready" /\ op = "ParseDM"
    /\ raw \in RawInputs
    /\ dmOut = NoDM /\ coord = LLZero /\ isLat = TRUE /\ wire = ""
    /\ tok = "" /\ enumOut = NoEnum
    /\ Fields = <<>> /\ sent = ZeroSentence /\ perr = NoErr /\ out = <<>> /\ dms = NoDMS

InitRoundTrip ==
    /\ pc = "ready" /\ op = "RoundTrip"
    /\ isLat \in BOOLEAN
    /\ coord \in Coords(isLat)
    /\ raw = "" /\ dmOut = NoDM /\ wire = ""
    /\ tok = "" /\ enumOut = NoEnum
    /\ Fields = <<>> /\ sent = ZeroSentence /\ perr = NoErr /\ out = <<>> /\ dms = NoDMS

\* dmOut := ParseDM(raw)
CallParseDM ==
    /\ pc = "ready" /\ op = "ParseDM"
    /\ dmOut' = ParseDM(raw)
    /\ pc' = "done"
    /\ UNCHANGED <<dms, op, raw, coord, isLat, wire, tok, enumOut, Fields, sent, perr, out>>

\* wire := coord.ToDM() + " " + coord.CardinalPoint(isLat)
CallToDM ==
    /\ pc = "ready" /\ op = "RoundTrip"
    /\ wire' = ToDM(coord) \o " " \o CardinalPointString(CardinalPoint(coord, isLat))
    /\ pc' = "wired"
    /\ UNCHANGED <<dms, op, raw, dmOut, coord, isLat, tok, enumOut, Fields, sent, perr, out>>

\* dmOut := ParseDM(wire)
CallReparse ==
    /\ pc = "wired" /\ op = "RoundTrip"
    /\ dmOut' = ParseDM(wire)
    /\ pc' = "done"
    /\ UNCHANGED <<dms, op, raw, coord, isLat, wire, tok, enumOut, Fields, sent, perr, out>>

InitCoord == InitParseDM \/ InitRoundTrip
NextCoord == CallParseDM \/ CallToDM \/ CallReparse
SpecCoord == InitCoord /\ [][NextCoord]_vars

(***************************************************************************)
(* The enumeration parsers                                                 *)
(***************************************************************************)
InvalidIndicator == 0
GNSSS == 1
DGPS == 2

FixStatusNoFix == 1
FixStatus2D == 2
FixStatus3D == 3

ModeManual == "M"
ModeAuto == "A"

ParseQualityIndicator(r) ==
    LET i == ParseInt(r)
    IN  IF ~i.ok THEN [iv |-> 0, sv |-> "", err |-> "ParseInt"]
        ELSE IF i.v \in {InvalidIndicator, GNSSS, DGPS} THEN [iv |-> i.v, sv |-> "", err |-> "nil"]
        ELSE [iv |-> i.v, sv |-> "", err |-> "unknow value"]

\* the bug of an enumeration that starts at iota = 0: fix status 0 accepted
ParseFixStatus_FromZero(r) ==
    LET i == ParseInt(r)
    IN  IF ~i.ok THEN [iv |-> 0, sv |-> "", err |-> "ParseInt"]
        ELSE IF i.v \in {0, FixStatusNoFix, FixStatus2D, FixStatus3D} THEN [iv |-> i.v, sv |-> "", err |-> "nil"]
        ELSE [iv |-> i.v, sv |-> "", err |-> "unknow value"]

ParseFixStatus(r) ==
    LET i == ParseInt(r)
    IN  IF ~i.ok THEN [iv |-> 0, sv |-> "", err |-> "ParseInt"]
        ELSE IF i.v \in {FixStatusNoFix, FixStatus2D, FixStatus3D} THEN [iv |-> i.v, sv |-> "", err |-> "nil"]
        ELSE [iv |-> i.v, sv |-> "", err |-> "unknow value"]

ParseMode(r) ==
    [iv |-> 0, sv |-> r, err |-> IF r \in {ModeManual, ModeAuto} THEN "nil" ELSE "unknow value"]

\* the largest integer among the tokens handed to the enumeration parsers
MaxTok == 11

\* the tokens: integers written plainly, signed and zero-padded, letters, and noise
EnumTokens ==
    {sg \o PadZero(NatToStr(n), w) : sg \in {"", "+", "-"}, n \in 0..MaxTok, w \in 1..2}
        \cup {"", " ", "M", "A", "N", "S", "E", "W", "X", "m", "a", "n", "MA", "NS", "1.0", "1 ", " 1", "A1"}
EnumParsers == {"ParseQualityIndicator", "ParseFixStatus", "ParseMode", "ParseCardinalPoint"}

InitEnum ==
    /\ pc = "ready" /\ op \in EnumParsers
    /\ tok \in EnumTokens
    /\ raw = "" /\ dmOut = NoDM /\ coord = LLZero /\ isLat = TRUE /\ wire = ""
    /\ enumOut = NoEnum
    /\ Fields = <<>> /\ sent = ZeroSentence /\ perr = NoErr /\ out = <<>> /\ dms = NoDMS

CallParseQualityIndicator ==
    /\ pc = "ready" /\ op = "ParseQualityIndicator"
    /\ enumOut' = ParseQualityIndicator(tok)
    /\ pc' = "done"
    /\ UNCHANGED <<dms, op, raw, dmOut, coord, isLat, wire, tok, Fields, sent, perr, out>>

CallParseFixStatus ==
    /\ pc = "ready" /\ op = "ParseFixStatus"
    /\ enumOut' = ParseFixStatus(tok)
    /\ pc' = "done"
    /\ UNCHANGED <<dms, op, raw, dmOut, coord, isLat, wire, tok, Fields, sent, perr, out>>

CallParseMode ==
    /\ pc = "ready" /\ op = "ParseMode"
    /\ enumOut' = ParseMode(tok)
    /\ pc' = "done"
    /\ UNCHANGED <<dms, op, raw, dmOut, coord, isLat, wire, tok, Fields, sent, perr, out>>

CallParseCardinalPoint ==
    /\ pc = "ready" /\ op = "ParseCardinalPoint"
    /\ enumOut' = [iv |-> 0, sv |-> ParseCardinalPoint(tok).cp, err |-> ParseCardinalPoint(tok).err]
    /\ pc' = "done"
    /\ UNCHANGED <<dms, op, raw, dmOut, coord, isLat, wire, tok, Fields, sent, perr, out>>

NextEnum ==
    CallParseQualityIndicator \/ CallParseFixStatus \/ CallParseMode \/ CallParseCardinalPoint
SpecEnum == InitEnum /\ [][NextEnum]_vars

(***************************************************************************)
(* The methods of a LatLong value: CardinalPoint().String() read back by   *)
(* ParseCardinalPoint, and DMS()                                           *)
(***************************************************************************)
LatLongOps == {"CardinalPoint", "DMS"}

\* the receivers: every coordinate of the axis, the zero coordinate included
InitLatLong ==
    /\ pc = "ready" /\ op \in LatLongOps
    /\ isLat \in BOOLEAN
    /\ coord \in Coords(isLat) \cup {LLZero}
    /\ raw = "" /\ dmOut = NoDM /\ wire = ""
    /\ tok = "" /\ enumOut = NoEnum
    /\ Fields = <<>> /\ sent = ZeroSentence /\ perr = NoErr /\ out = <<>> /\ dms = NoDMS

\* tok := coord.CardinalPoint(isLat).String()
CallCardinalPointString ==
    /\ pc = "ready" /\ op = "CardinalPoint"
    /\ tok' = CardinalPointString(CardinalPoint(coord, isLat))
    /\ pc' = "named"
    /\ UNCHANGED <<dms, op, raw, dmOut, coord, isLat, wire, enumOut, Fields, sent, perr, out>>

\* enumOut := ParseCardinalPoint(tok)
CallReparseCardinalPoint ==
    /\ pc = "named" /\ op = "CardinalPoint"
    /\ enumOut' = [iv |-> 0, sv |-> ParseCardinalPoint(tok).cp, err |-> ParseCardinalPoint(tok).err]
    /\ pc' = "done"
    /\ UNCHANGED <<dms, op, raw, dmOut, coord, isLat, wire, tok, Fields, sent, perr, out>>

\* dms := coord.DMS()
CallDMS ==
    /\ pc = "ready" /\ op = "DMS"
    /\ dms' = DMS(coord)
    /\ pc' = "done"
    /\ UNCHANGED <<op, raw, dmOut, coord, isLat, wire, tok, enumOut, Fields, sent, perr, out>>

NextLatLong == CallCardinalPointString \/ CallReparseCardinalPoint \/ CallDMS
SpecLatLong == InitLatLong /\ [][NextLatLong]_vars

(***************************************************************************)
(* Frames, errors and the helpers the sentence parsers share               *)
(***************************************************************************)
\* m.Fields[i], Go's index from 0
F(fs, i) == fs[i + 1]
\* m.Fields[a:b]
Slice(fs, a, b) == SubSeq(fs, a + 1, b)

F0 == Fin(FALSE, 0, 0)
Nil == [set |-> FALSE, v |-> F0]
Ptr(x) == [set |-> TRUE, v |-> x]

\* fmt.Errorf("Incomplete ... (got: %d, wanted: %d)", len(m.Fields), want)
CountErr(fs, want) ==
    [kind |-> "field count", at |-> 0 - 1, index |-> 0 - 1, got |-> NatToStr(Len(fs)), want |-> NatToStr(want)]

\* The error of a typed extraction that failed on field `at` and formats
\* m.Fields[rep] into its message: indexing past the end of the slice is a
\* run-time panic, not an error value.
ValueErr(fs, at, rep) ==
    IF rep < Len(fs)
        THEN [kind |-> "value", at |-> at, index |-> rep, got |-> F(fs, rep), want |-> ""]
    ELSE [kind |-> "panic", at |-> at, index |-> rep, got |-> "", want |-> ""]

\* m.Error(err) for an error of another function, which names no field
WrapErr(at, msg) == [kind |-> "value", at |-> at, index |-> 0 - 1, got |-> msg, want |-> ""]

\* "for i, v := range map[int]string{...}": the first entry, in the order the
\* run-time visits them, whose field differs from its literal
RECURSIVE FixedErr(_, _, _)
FixedErr(fs, table, ord) ==
    IF Len(ord) = 0 THEN NoErr
    ELSE IF F(fs, Head(ord)) # table[Head(ord)]
        THEN [kind |-> "fixed field", at |-> Head(ord), index |-> Head(ord) + 1,
              got |-> F(fs, Head(ord)), want |-> table[Head(ord)]]
    ELSE FixedErr(fs, table, Tail(ord))

\* every order in which a map with these keys may be visited
Orders(keys) ==
    {o \in [1..Cardinality(keys) -> keys] : \A i, j \in 1..Cardinality(keys) : i # j => o[i] # o[j]}

\* time.Parse("150405.000", s): hhmmss.sss
ParseTime(s) ==
    /\ Len(s) = 10
    /\ At(s, 7) = "."
    /\ AllDigits(SubSeq(s, 1, 6)) /\ AllDigits(SubSeq(s, 8, 10))
    /\ StrToNat(SubSeq(s, 1, 2)) < 24
    /\ StrToNat(SubSeq(s, 3, 4)) < 60
    /\ StrToNat(SubSeq(s, 5, 6)) < 60

DaysIn(mo, yy) ==
    IF mo = 2 THEN (IF yy % 4 = 0 THEN 29 ELSE 28)
    ELSE IF mo \in {4, 6, 9, 11} THEN 30 ELSE 31

\* time.Parse("020106 150405.000", s): ddmmyy hhmmss.sss
ParseDateTime(s) ==
    /\ Len(s) = 17
    /\ At(s, 7) = " "
    /\ AllDigits(SubSeq(s, 1, 6))
    /\ StrToNat(SubSeq(s, 3, 4)) \in 1..12
    /\ StrToNat(SubSeq(s, 1, 2)) \in 1..DaysIn(StrToNat(SubSeq(s, 3, 4)), StrToNat(SubSeq(s, 5, 6)))
    /\ ParseTime(SubSeq(s, 8, 17))

\* PositioningMode: the closed set of single-letter tokens
ParsePositioningMode(r) ==
    [v |-> r, err |-> IF r \in {"A", "D", "E", "N"} THEN "nil" ELSE "unknow value"]

\* Severity: the two-digit levels of the text sentence
ParseSeverity(r) ==
    [v |-> r, err |-> IF r \in {"00", "01", "02", "07"} THEN "nil" ELSE "unknow value"]
SeveritySerialize(v) == v

\* DataValid.Serialize: the wire tokens A / V
DataValidSerialize(b) == IF b THEN "A" ELSE "V"

\* fmt.Sprintf("%03.1f", x) and "%.1f" for a finite x: one decimal, nearest
FormatF1(x) ==
    LET tenths == x.ip * 10 + ((x.fp + (Scale \div 20)) \div (Scale \div 10))
    IN  (IF x.neg /\ tenths > 0 THEN "-" ELSE "")
            \o NatToStr(tenths \div 10) \o "." \o NatToStr(tenths % 10)

\* "latitude := TrimSpace(Join(Fields[i:i+2], " ")); if len(latitude) > 0 { NewLatLong }":
\* the coordinate of fields i and i+1, the zero value when both are empty
FieldLatLong(fs, i) ==
    LET joined == TrimSpace(Join(Slice(fs, i, i + 2), " "))
    IN  IF Len(joined) > 0 THEN NewLatLong(joined) ELSE [err |-> "nil", v |-> LLZero]

(***************************************************************************)
(* DBT: depth below transducer                                             *)
(***************************************************************************)
DBTFixed == (1 :> "f") @@ (3 :> "M") @@ (5 :> "F")
ZeroDBT == [DepthInFeet |-> F0, DepthInMeters |-> F0, DepthInFathoms |-> F0]

ParseDBT(fs, ord) ==
    LET fixed   == FixedErr(fs, DBTFixed, ord)
        feet    == ParseFloat(F(fs, 0))
        meters  == ParseFloat(F(fs, 2))
        fathoms == ParseFloat(F(fs, 4))
        s1 == [ZeroDBT EXCEPT !.DepthInFeet = feet.v]
        s2 == [s1 EXCEPT !.DepthInMeters = meters.v]
        s3 == [s2 EXCEPT !.DepthInFathoms = fathoms.v]
    IN  IF Len(fs) # 6 THEN [err |-> CountErr(fs, 6), s |-> ZeroDBT]
        ELSE IF fixed.kind # "nil" THEN [err |-> fixed, s |-> ZeroDBT]
        ELSE IF ~feet.ok THEN [err |-> ValueErr(fs, 0, 0), s |-> ZeroDBT]
        ELSE IF ~meters.ok THEN [err |-> ValueErr(fs, 2, 4), s |-> s1]
        ELSE IF ~fathoms.ok THEN [err |-> ValueErr(fs, 4, 6), s |-> s2]
        ELSE [err |-> NoErr, s |-> s3]

SerializeDBT(m) ==
    <<FormatF1(m.DepthInFeet), "f", FormatF1(m.DepthInMeters), "M", FormatF1(m.DepthInFathoms), "F">>

(***************************************************************************)
(* GLL: geographic position                                                *)
(***************************************************************************)
ZeroGLL ==
    [TimeUTC |-> "", Latitude |-> LLZero, Longitude |-> LLZero, IsValid |-> FALSE,
     PositioningMode |-> ""]

ParseGLL(fs) ==
    LET lat  == FieldLatLong(fs, 0)
        lon  == FieldLatLong(fs, 2)
        mode == ParsePositioningMode(F(fs, 6))
        s1 == [ZeroGLL EXCEPT !.Latitude = lat.v]
        s2 == [s1 EXCEPT !.Longitude = lon.v]
        s3 == [s2 EXCEPT !.TimeUTC = F(fs, 4)]
        s4 == [s3 EXCEPT !.IsValid = (F(fs, 5) = "A")]
        s5 == [s4 EXCEPT !.PositioningMode = mode.v]
    IN  IF Len(fs) # 7 THEN [err |-> CountErr(fs, 7), s |-> ZeroGLL]
        ELSE IF lat.err # "nil" THEN [err |-> WrapErr(0, lat.err), s |-> ZeroGLL]
        ELSE IF lon.err # "nil" THEN [err |-> WrapErr(2, lon.err), s |-> s1]
        ELSE IF ~ParseTime(F(fs, 4)) THEN [err |-> ValueErr(fs, 4, 4), s |-> s2]
        ELSE IF mode.err # "nil" THEN [err |-> ValueErr(fs, 6, 6), s |-> s4]
        ELSE [err |-> NoErr, s |-> s5]

SerializeGLL(m) ==
    <<m.TimeUTC,
      Trim(ToDM(m.Latitude), "0"), CardinalPointString(CardinalPoint(m.Latitude, TRUE)),
      Trim(ToDM(m.Longitude), "0"), CardinalPointString(CardinalPoint(m.Longitude, FALSE)),
      DataValidSerialize(m.IsValid)>>

(***************************************************************************)
(* VTG: track made good and ground speed                                   *)
(***************************************************************************)
\* the bug of a table that leaves the unit of the speed in km/h unchecked
VTGFixed_NoK == (1 :> "T") @@ (3 :> "M") @@ (5 :> "N")

VTGFixed == (1 :> "T") @@ (3 :> "M") @@ (5 :> "N") @@ (7 :> "K")
ZeroVTG == [COG |-> F0, SpeedKnots |-> F0, SpeedKmh |-> F0, PositioningMode |-> ""]

ParseVTG(fs, ord) ==
    LET fixed == FixedErr(fs, VTGFixed, ord)
        cog   == ParseFloat(F(fs, 0))
        knots == ParseFloat(F(fs, 4))
        kmh   == ParseFloat(F(fs, 6))
        mode  == ParsePositioningMode(F(fs, 8))
        s1 == [ZeroVTG EXCEPT !.COG = cog.v]
        s2 == [s1 EXCEPT !.SpeedKnots = knots.v]
        s3 == [s2 EXCEPT !.SpeedKmh = kmh.v]
        s4 == [s3 EXCEPT !.PositioningMode = mode.v]
    IN  IF Len(fs) # 9 THEN [err |-> CountErr(fs, 9), s |-> ZeroVTG]
        ELSE IF fixed.kind # "nil" THEN [err |-> fixed, s |-> ZeroVTG]
        ELSE IF ~cog.ok THEN [err |-> ValueErr(fs, 0, 0), s |-> ZeroVTG]
        ELSE IF ~knots.ok THEN [err |-> ValueErr(fs, 4, 4), s |-> s1]
        ELSE IF ~kmh.ok THEN [err |-> ValueErr(fs, 6, 6), s |-> s2]
        ELSE IF mode.err # "nil" THEN [err |-> ValueErr(fs, 8, 8), s |-> s3]
        ELSE [err |-> NoErr, s |-> s4]

SerializeVTG(m) ==
    <<FormatF1(m.COG), "T", "", "M", FormatF1(m.SpeedKnots), "N", FormatF1(m.SpeedKmh), "K",
      m.PositioningMode>>

(***************************************************************************)
(* TXT: text transmission                                                  *)
(***************************************************************************)
ZeroTXT == [TotalNbMsgInTx |-> 0, MsgNumInTx |-> 0, Severity |-> "", TxtMsg |-> ""]

\* fmt.Sprintf("%d", n)
Itoa(n) == IF n < 0 THEN "-" \o NatToStr(0 - n) ELSE NatToStr(n)

ParseTXT(fs) ==
    LET total == ParseInt(F(fs, 0))
        num   == ParseInt(F(fs, 1))
        sev   == ParseSeverity(F(fs, 2))
        s1 == [ZeroTXT EXCEPT !.TotalNbMsgInTx = total.v]
        s2 == [s1 EXCEPT !.MsgNumInTx = num.v]
        s3 == [s2 EXCEPT !.Severity = sev.v]
        s4 == [s3 EXCEPT !.TxtMsg = Join(Slice(fs, 3, Len(fs)), " ")]
    IN  IF Len(fs) # 4 THEN [err |-> CountErr(fs, 4), s |-> ZeroTXT]
        ELSE IF ~total.ok THEN [err |-> ValueErr(fs, 0, 0), s |-> ZeroTXT]
        ELSE IF ~num.ok THEN [err |-> ValueErr(fs, 1, 1), s |-> s1]
        ELSE IF sev.err # "nil" THEN [err |-> ValueErr(fs, 2, 2), s |-> s2]
        ELSE [err |-> NoErr, s |-> s4]

SerializeTXT(m) ==
    <<IF m.TotalNbMsgInTx < 10 THEN "0" \o Itoa(m.TotalNbMsgInTx) ELSE Itoa(m.TotalNbMsgInTx),
      IF m.MsgNumInTx < 10 THEN "0" \o Itoa(m.MsgNumInTx) ELSE Itoa(m.MsgNumInTx),
      SeveritySerialize(m.Severity), m.TxtMsg>>

(***************************************************************************)
(* GGA: fix data                                                           *)
(***************************************************************************)
GGAFixed == (9 :> "M") @@ (11 :> "M")
ZeroGGA ==
    [TimeUTC |-> "", Latitude |-> LLZero, Longitude |-> LLZero, QualityIndicator |-> 0,
     NbOfSatellitesUsed |-> 0, HDOP |-> F0, Altitude |-> F0,
     GeoIDSep |-> Nil, DGPSAge |-> Nil, DGPSStationID |-> [set |-> FALSE, v |-> 0]]

\* strconv.ParseUint(s, 10, 0): decimal digits, no sign
ParseUint10(s) ==
    IF Len(s) > 0 /\ AllDigits(s) THEN [ok |-> TRUE, v |-> StrToNat(s)] ELSE [ok |-> FALSE, v |-> 0]

RECURSIVE OctalVal(_)
OctalVal(s) ==
    IF Len(s) = 0 THEN 0
    ELSE OctalVal(SubSeq(s, 1, Len(s) - 1)) * 8 + DigitVal(At(s, Len(s)))

\* strconv.ParseUint(s, 0, 8) on digits: base 0 reads a leading "0" as the octal
\* prefix, and bitSize 8 refuses every value above 255
ParseUintBase0Bits8(s) ==
    LET octal == Len(s) > 0 /\ At(s, 1) = "0"
        body  == IF octal THEN SubSeq(s, 2, Len(s)) ELSE s
        good  == /\ Len(s) > 0
                 /\ AllDigits(s)
                 /\ octal => \A i \in 1..Len(body) : At(body, i) \notin {"8", "9"}
        v     == IF octal THEN OctalVal(body) ELSE StrToNat(body)
    IN  IF good /\ v <= 255 THEN [ok |-> TRUE, v |-> v] ELSE [ok |-> FALSE, v |-> 0]

\* x > 0
Positive(x) == x.kind # "nan" /\ ~x.neg /\ (x.kind = "inf" \/ x.ip > 0 \/ x.fp > 0)

\* PrependXZero(x, "%03.1f", 4): the formatted value, its integer part padded to 4 digits
PrependXZero(x) == PadZero(FormatF1(x), 6)

ParseGGA(fs, ord) ==
    LET fixed == FixedErr(fs, GGAFixed, ord)
        lat   == FieldLatLong(fs, 1)
        lon   == FieldLatLong(fs, 3)
        qi    == ParseQualityIndicator(F(fs, 5))
        nb    == ParseUint10(F(fs, 6))
        hdop  == ParseFloat(F(fs, 7))
        alt   == ParseFloat(F(fs, 8))
        geo   == ParseFloat(F(fs, 10))
        age   == ParseFloat(F(fs, 12))
        sta   == ParseUintBase0Bits8(F(fs, 13))
        s1 == [ZeroGGA EXCEPT !.TimeUTC = F(fs, 0)]
        s2 == [s1 EXCEPT !.Latitude = lat.v]
        s3 == [s2 EXCEPT !.Longitude = lon.v]
        s4 == [s3 EXCEPT !.QualityIndicator = qi.iv]
        s5 == [s4 EXCEPT !.NbOfSatellitesUsed = nb.v]
        s6 == [s5 EXCEPT !.HDOP = IF Len(F(fs, 7)) > 0 THEN hdop.v ELSE @]
        s7 == [s6 EXCEPT !.Altitude = IF Len(F(fs, 8)) > 0 THEN alt.v ELSE @]
        s8 == [s7 EXCEPT !.GeoIDSep = IF Len(F(fs, 10)) > 0 THEN Ptr(geo.v) ELSE @]
        s9 == [s8 EXCEPT !.DGPSAge = IF Len(F(fs, 12)) > 0 THEN Ptr(age.v) ELSE @]
        s10 == [s9 EXCEPT !.DGPSStationID = IF Len(F(fs, 13)) > 0 THEN [set |-> TRUE, v |-> sta.v] ELSE @]
    IN  IF Len(fs) # 14 THEN [err |-> CountErr(fs, 14), s |-> ZeroGGA]
        ELSE IF fixed.kind # "nil" THEN [err |-> fixed, s |-> ZeroGGA]
        ELSE IF ~ParseTime(F(fs, 0)) THEN [err |-> ValueErr(fs, 0, 0), s |-> ZeroGGA]
        ELSE IF lat.err # "nil" THEN [err |-> WrapErr(1, lat.err), s |-> s1]
        ELSE IF lon.err # "nil" THEN [err |-> WrapErr(3, lon.err), s |-> s2]
        ELSE IF qi.err # "nil" THEN [err |-> WrapErr(5, qi.err), s |-> s3]
        ELSE IF ~nb.ok THEN [err |-> WrapErr(6, "ParseUint"), s |-> s4]
        ELSE IF Len(F(fs, 7)) > 0 /\ ~hdop.ok THEN [err |-> WrapErr(7, "ParseFloat"), s |-> s5]
        ELSE IF Len(F(fs, 8)) > 0 /\ ~alt.ok THEN [err |-> WrapErr(8, "ParseFloat"), s |-> s6]
        ELSE IF Len(F(fs, 10)) > 0 /\ ~geo.ok THEN [err |-> WrapErr(10, "ParseFloat"), s |-> s7]
        ELSE IF Len(F(fs, 12)) > 0 /\ ~age.ok THEN [err |-> WrapErr(12, "ParseFloat"), s |-> s8]
        ELSE IF Len(F(fs, 13)) > 0 /\ ~sta.ok THEN [err |-> WrapErr(13, "ParseUint"), s |-> s9]
        ELSE [err |-> NoErr, s |-> s10]

SerializeGGA(m) ==
    <<m.TimeUTC,
      Trim(ToDM(m.Latitude), "0"), CardinalPointString(CardinalPoint(m.Latitude, TRUE)),
      Trim(ToDM(m.Longitude), "0"), CardinalPointString(CardinalPoint(m.Longitude, FALSE)),
      Itoa(m.QualityIndicator),
      Itoa(m.NbOfSatellitesUsed),
      IF Positive(m.HDOP) THEN FormatF1(m.HDOP) ELSE "",
      IF Positive(m.Altitude) THEN PrependXZero(m.Altitude) ELSE "",
      "M",
      IF m.GeoIDSep.set THEN FormatF1(m.GeoIDSep.v) ELSE "",
      "M",
      IF m.DGPSAge.set THEN FormatF1(m.DGPSAge.v) ELSE "",
      IF m.DGPSStationID.set THEN PadZero(NatToStr(m.DGPSStationID.v), 4) ELSE "">>

(***************************************************************************)
(* RMC: recommended minimum navigation information                         *)
(***************************************************************************)
ZeroRMC ==
    [DateTimeUTC |-> "", IsValid |-> FALSE, Latitude |-> LLZero, Longitude |-> LLZero,
     Speed |-> F0, COG |-> F0, MagneticVariation |-> F0, PositioningMode |-> ""]

\* 0 - x
NegF(x) == IF x.kind = "nan" THEN x ELSE [x EXCEPT !.neg = ~x.neg /\ (x.kind = "inf" \/ x.ip > 0 \/ x.fp > 0)]

ParseRMC(fs) ==
    LET datetime == F(fs, 8) \o " " \o F(fs, 0)
        lat   == FieldLatLong(fs, 2)
        lon   == FieldLatLong(fs, 4)
        speed == ParseFloat(F(fs, 6))
        cog   == ParseFloat(F(fs, 7))
        mv    == ParseFloat(F(fs, 9))
        mvdir == ParseCardinalPoint(F(fs, 10))
        mode  == ParsePositioningMode(F(fs, 11))
        s1 == [ZeroRMC EXCEPT !.DateTimeUTC = datetime]
        s2 == [s1 EXCEPT !.IsValid = (F(fs, 1) = "A")]
        s3 == [s2 EXCEPT !.Latitude = lat.v]
        s4 == [s3 EXCEPT !.Longitude = lon.v]
        s5 == [s4 EXCEPT !.Speed = speed.v]
        s6 == [s5 EXCEPT !.COG = cog.v]
        s7 == [s6 EXCEPT !.MagneticVariation = IF Len(F(fs, 9)) > 0 THEN mv.v ELSE @]
        s8 == [s7 EXCEPT !.MagneticVariation =
                  IF Len(F(fs, 9)) > 0 /\ Len(F(fs, 10)) > 0 /\ mvdir.cp = West THEN NegF(mv.v) ELSE @]
        s9 == [s8 EXCEPT !.PositioningMode = mode.v]
    IN  IF Len(fs) # 12 THEN [err |-> CountErr(fs, 12), s |-> ZeroRMC]
        ELSE IF ~ParseDateTime(datetime)
            THEN [err |-> [kind |-> "value", at |-> 8, index |-> 0 - 1, got |-> datetime, want |-> ""],
                  s |-> ZeroRMC]
        ELSE IF lat.err # "nil" THEN [err |-> WrapErr(2, lat.err), s |-> s2]
        ELSE IF lon.err # "nil" THEN [err |-> WrapErr(4, lon.err), s |-> s3]
        ELSE IF ~speed.ok THEN [err |-> ValueErr(fs, 6, 6), s |-> s4]
        ELSE IF ~cog.ok THEN [err |-> ValueErr(fs, 7, 7), s |-> s5]
        ELSE IF Len(F(fs, 9)) > 0 /\ ~mv.ok THEN [err |-> ValueErr(fs, 9, 9), s |-> s6]
        ELSE IF Len(F(fs, 9)) > 0 /\ Len(F(fs, 10)) > 0 /\ mvdir.err # "nil"
            THEN [err |-> ValueErr(fs, 10, 10), s |-> s7]
        ELSE IF Len(F(fs, 9)) > 0 /\ Len(F(fs, 10)) > 0 /\ mvdir.cp \notin {West, East}
            THEN [err |-> ValueErr(fs, 10, 10), s |-> s7]
        ELSE IF mode.err # "nil" THEN [err |-> ValueErr(fs, 11, 11), s |-> s8]
        ELSE [err |-> NoErr, s |-> s9]

(***************************************************************************)
(* GSA: DOP and active satellites                                          *)
(***************************************************************************)
ZeroGSA ==
    [Mode |-> "", FixStatus |-> 0, SatelliteUsedOnChannel |-> [k \in 0..12 |-> 0],
     PDOP |-> F0, HDOP |-> F0, VDOP |-> F0]

ParseGSA(fs) ==
    LET mode == ParseMode(F(fs, 0))
        fix  == ParseFixStatus(F(fs, 1))
        pdop == ParseFloat(F(fs, 14))
        hdop == ParseFloat(F(fs, 15))
        vdop == ParseFloat(F(fs, 16))
        s1 == [ZeroGSA EXCEPT !.Mode = mode.sv]
        s2 == [s1 EXCEPT !.FixStatus = fix.iv]
        \* "for k, v := range m.Fields[2:14]": channel k+1, Atoi's error dropped
        s3 == [s2 EXCEPT !.SatelliteUsedOnChannel =
                  [k \in 0..12 |-> IF k = 0 THEN 0 ELSE ParseInt(F(fs, k + 1)).v]]
        s4 == [s3 EXCEPT !.PDOP = IF Len(F(fs, 14)) > 0 THEN pdop.v ELSE @]
        s5 == [s4 EXCEPT !.HDOP = IF Len(F(fs, 15)) > 0 THEN hdop.v ELSE @]
        s6 == [s5 EXCEPT !.VDOP = IF Len(F(fs, 16)) > 0 THEN vdop.v ELSE @]
    IN  IF Len(fs) # 17 THEN [err |-> CountErr(fs, 17), s |-> ZeroGSA]
        ELSE IF mode.err # "nil" THEN [err |-> WrapErr(0, mode.err), s |-> ZeroGSA]
        ELSE IF fix.err # "nil" THEN [err |-> WrapErr(1, fix.err), s |-> s1]
        ELSE IF Len(F(fs, 14)) > 0 /\ ~pdop.ok THEN [err |-> WrapErr(14, "ParseFloat"), s |-> s3]
        ELSE IF Len(F(fs, 15)) > 0 /\ ~hdop.ok THEN [err |-> WrapErr(15, "ParseFloat"), s |-> s4]
        ELSE IF Len(F(fs, 16)) > 0 /\ ~vdop.ok THEN [err |-> WrapErr(16, "ParseFloat"), s |-> s5]
        ELSE [err |-> NoErr, s |-> s6]

(***************************************************************************)
(* ZDA: time and date                                                      *)
(***************************************************************************)
ZeroZDA == [DateTimeUTC |-> ""]

\* the bug of a gate that refuses only the frames that are too short
ParseZDA_AtLeast(fs) ==
    LET datetime == F(fs, 4) \o F(fs, 3) \o F(fs, 2) \o " " \o F(fs, 5)
    IN  IF Len(fs) < 7 THEN [err |-> CountErr(fs, 7), s |-> ZeroZDA]
        ELSE IF ~ParseDateTime(datetime)
            THEN [err |-> [kind |-> "value", at |-> 4, index |-> 0 - 1, got |-> datetime, want |-> ""],
                  s |-> ZeroZDA]
        ELSE [err |-> NoErr, s |-> [DateTimeUTC |-> datetime]]

ParseZDA(fs) ==
    LET datetime == F(fs, 4) \o F(fs, 3) \o F(fs, 2) \o " " \o F(fs, 5)
    IN  IF Len(fs) # 7 THEN [err |-> CountErr(fs, 7), s |-> ZeroZDA]
        ELSE IF ~ParseDateTime(datetime)
            THEN [err |-> [kind |-> "value", at |-> 4, index |-> 0 - 1, got |-> datetime, want |-> ""],
                  s |-> ZeroZDA]
        ELSE [err |-> NoErr, s |-> [DateTimeUTC |-> datetime]]

SerializeZDA(m) == <<m.DateTimeUTC>>

(***************************************************************************)
(* The frames handed to parse(), and the calls                             *)
(***************************************************************************)
Types == {"GPDBT", "GPVTG", "GPTXT", "GPGLL", "GPGGA", "GPRMC", "GPGSA", "GPZDA"}

\* the number of fields parse() requires
Wanted(t) ==
    CASE t = "GPDBT" -> 6 [] t = "GPVTG" -> 9 [] t = "GPTXT" -> 4 [] t = "GPGLL" -> 7
      [] t = "GPGGA" -> 14 [] t = "GPRMC" -> 12 [] t = "GPGSA" -> 17 [] OTHER -> 7

\* a well-formed frame of each type (the examples of the sources' comments)
BaseFrame(t) ==
    CASE t = "GPDBT" -> <<"108.34", "f", "33.02", "M", "18.06", "F">>
      [] t = "GPVTG" -> <<"0.0", "T", "", "M", "0.0", "N", "0.1", "K", "A">>
      [] t = "GPTXT" -> <<"01", "01", "02", "ANTSTATUS=OK">>
      [] t = "GPGLL" -> <<"3110.2908", "N", "12123.2348", "E", "041139.000", "A", "A">>
      [] t = "GPGGA" -> <<"015540.000", "3150.68378", "N", "11711.93139", "E", "1", "17",
                          "0.6", "0051.6", "M", "0.0", "M", "", "">>
      [] t = "GPRMC" -> <<"013732.000", "A", "3150.7238", "N", "11711.7278", "E", "0.00",
                          "0.00", "220413", "", "", "A">>
      [] t = "GPGSA" -> <<"A", "3", "14", "06", "16", "31", "23", "", "", "", "", "", "", "",
                          "1.66", "1.42", "0.84">>
      [] OTHER       -> <<"", "", "13", "04", "22", "013732.000", "">>

ZeroOf(t) ==
    CASE t = "GPDBT" -> ZeroDBT [] t = "GPVTG" -> ZeroVTG [] t = "GPTXT" -> ZeroTXT
      [] t = "GPGLL" -> ZeroGLL [] t = "GPGGA" -> ZeroGGA [] t = "GPRMC" -> ZeroRMC
      [] t = "GPGSA" -> ZeroGSA [] OTHER -> ZeroZDA

\* the fields appended to a frame beyond the number parse() requires, at most
MaxExtra == 2

\* what one field of a well-formed frame is replaced by
FieldSamples ==
    {"", "X", "A", "V", "N", "S", "E", "W", "M", "x1", "0.0", "1.5", "-5.0", "9", "0",
     "12000.00", "0010"}
\* what two fields at once are replaced by
PairSamples == {"", "X", "E", "12000.00"}

Filler(n, v) == [i \in 1..n |-> v]

\* the largest differential reference station ID ("0000-1023")
MaxStationID == 1023

\* the GGA frames that carry a four-digit zero-padded station ID in field 13
StationFrames ==
    {[BaseFrame("GPGGA") EXCEPT ![14] = PadZero(NatToStr(k), 4)] : k \in 0..MaxStationID}

Frames(t) ==
    LET b == BaseFrame(t)
        n == Len(b)
    IN  {b}
        \cup (IF t = "GPGGA" THEN StationFrames ELSE {})
        \cup {[b EXCEPT ![i] = v] : i \in 1..n, v \in FieldSamples}
        \cup {[b EXCEPT ![i] = v, ![j] = w] : i \in 1..n, j \in 1..n, v \in PairSamples, w \in PairSamples}
        \cup {SubSeq(b, 1, k) : k \in 0..(n - 1)}
        \cup {b \o Filler(k, v) : k \in 1..MaxExtra, v \in {"", "X"}}
        \cup {Filler(k, v) : k \in 0..(n + MaxExtra), v \in {"", "X"}}

InitFrame ==
    /\ pc = "ready" /\ op \in Types
    /\ Fields \in Frames(op)
    /\ sent = ZeroOf(op)
    /\ perr = NoErr /\ out = <<>> /\ dms = NoDMS
    /\ raw = "" /\ dmOut = NoDM /\ coord = LLZero /\ isLat = TRUE /\ wire = ""
    /\ tok = "" /\ enumOut = NoEnum

\* the sentence and the error parse() leaves; a panic ends the call
Parsed(r) ==
    /\ sent' = r.s
    /\ perr' = r.err
    /\ pc' = IF r.err.kind = "panic" THEN "panicked" ELSE "parsed"
    /\ UNCHANGED <<dms, op, raw, dmOut, coord, isLat, wire, tok, enumOut, Fields, out>>

\* the field list Serialize() hands to Message.Serialize
Serialized(fields) ==
    /\ out' = fields
    /\ pc' = "serialized"
    /\ UNCHANGED <<dms, op, raw, dmOut, coord, isLat, wire, tok, enumOut, Fields, sent, perr>>

CallParseDBT ==
    /\ pc = "ready" /\ op = "GPDBT"
    /\ \E ord \in Orders(DOMAIN DBTFixed) : Parsed(ParseDBT(Fields, ord))

CallParseVTG ==
    /\ pc = "ready" /\ op = "GPVTG"
    /\ \E ord \in Orders(DOMAIN VTGFixed) : Parsed(ParseVTG(Fields, ord))

CallParseGGA ==
    /\ pc = "ready" /\ op = "GPGGA"
    /\ \E ord \in Orders(DOMAIN GGAFixed) : Parsed(ParseGGA(Fields, ord))

CallParseTXT == pc = "ready" /\ op = "GPTXT" /\ Parsed(ParseTXT(Fields))
CallParseGLL == pc = "ready" /\ op = "GPGLL" /\ Parsed(ParseGLL(Fields))
CallParseRMC == pc = "ready" /\ op = "GPRMC" /\ Parsed(ParseRMC(Fields))
CallParseGSA == pc = "ready" /\ op = "GPGSA" /\ Parsed(ParseGSA(Fields))
CallParseZDA == pc = "ready" /\ op = "GPZDA" /\ Parsed(ParseZDA(Fields))

\* Serialize() of a sentence parse() accepted
CanSerialize(t) == pc = "parsed" /\ op = t /\ perr = NoErr
CallSerializeDBT == CanSerialize("GPDBT") /\ Serialized(SerializeDBT(sent))
CallSerializeVTG == CanSerialize("GPVTG") /\ Serialized(SerializeVTG(sent))
CallSerializeTXT == CanSerialize("GPTXT") /\ Serialized(SerializeTXT(sent))
CallSerializeGLL == CanSerialize("GPGLL") /\ Serialized(SerializeGLL(sent))
CallSerializeGGA == CanSerialize("GPGGA") /\ Serialized(SerializeGGA(sent))
CallSerializeZDA == CanSerialize("GPZDA") /\ Serialized(SerializeZDA(sent))

NextFrame ==
    \/ CallParseDBT \/ CallParseVTG \/ CallParseTXT \/ CallParseGLL
    \/ CallParseGGA \/ CallParseRMC \/ CallParseGSA \/ CallParseZDA
    \/ CallSerializeDBT \/ CallSerializeVTG \/ CallSerializeTXT
    \/ CallSerializeGLL \/ CallSerializeGGA \/ CallSerializeZDA
SpecFrame == InitFrame /\ [][NextFrame]_vars

Init == InitCoord \/ InitEnum \/ InitLatLong \/ InitFrame
Next == NextCoord \/ NextEnum \/ NextLatLong \/ NextFrame
Spec == Init /\ [][Next]_vars

(***************************************************************************)
(* The claims                                                              *)
(***************************************************************************)
LastChar(r) == At(r, Len(r))
CalledParseDM == pc = "done" /\ op = "ParseDM"
Accepted == CalledParseDM /\ dmOut.err = "nil"

\* C1: parse() of every sentence type ends by returning nil or an error value,
\* whatever the frame holds: it never ends in a run-time fault (an index past
\* the end of the field list).
C1_ParseNeverPanics == perr.kind # "panic"

\* C2: coordinate round trip: for every non-zero coordinate c within its axis
\* range, of either sign, ParseDM(c.ToDM() + " " + c.CardinalPoint(axis))
\* returns c with no error.
C2_RoundTrip ==
    (pc = "done" /\ op = "RoundTrip") => (dmOut.err = "nil" /\ dmOut.v = coord)

\* C3: hemisphere sign law: the coordinate ParseDM returns for an input it
\* accepts is negative if and only if the letter ending the input is S or W.
C3_SignLaw ==
    Accepted => (IsNeg(dmOut.v) <=> LastChar(raw) \in {South, West})

\* a numeric degree-minute string: digits with an optional point, as ddmm.mmmm
IsDMNumber(n) == Len(n) > 0 /\ \A i \in 1..Len(n) : At(n, i) \in DigitChars \cup {"."}

\* C4: the space between the number and the cardinal letter is optional: for a
\* number n and a letter p, ParseDM(n + p) and ParseDM(n + " " + p) both fail or
\* both return the same coordinate.
C4_SpaceOptional ==
    LET n == SubSeq(raw, 1, Len(raw) - 1)
        spaced == ParseDM(n \o " " \o LastChar(raw))
    IN  (CalledParseDM /\ Len(raw) >= 2 /\ IsDMNumber(n)
            /\ LastChar(raw) \in {North, South, East, West})
        => /\ (dmOut.err = "nil") <=> (spaced.err = "nil")
           /\ dmOut.v = spaced.v

\* where the latitude and the longitude fields of a sentence type start
LatIndex(t) == CASE t = "GPGLL" -> 0 [] t = "GPGGA" -> 1 [] OTHER -> 2
InRange(l, max) == l.kind = "fin" /\ ~AbsExceeds(l, max)

\* C5: a GLL, GGA or RMC frame is decoded only if the cardinal point paired with
\* its latitude is N or S and the one paired with its longitude is E or W (or the
\* coordinate is left empty), and then Latitude is in [-90, 90] and Longitude in
\* [-180, 180].
C5_AxisCardinal ==
    (pc = "parsed" /\ op \in {"GPGLL", "GPGGA", "GPRMC"} /\ perr = NoErr)
    => LET i == LatIndex(op)
       IN  /\ F(Fields, i + 1) \in {North, South} \/ (F(Fields, i) = "" /\ F(Fields, i + 1) = "")
           /\ F(Fields, i + 3) \in {East, West} \/ (F(Fields, i + 2) = "" /\ F(Fields, i + 3) = "")
           /\ InRange(sent.Latitude, MaxLat)
           /\ InRange(sent.Longitude, MaxLong)

\* C6: range check without clamping: ParseDM returns an error or a coordinate of
\* magnitude at most 90 for N/S and at most 180 for E/W, and an input whose
\* number, read as degrees plus minutes/60, exceeds that bound yields an error.
C6_RangeChecked ==
    LET max == IF LastChar(raw) \in {North, South} THEN MaxLat ELSE MaxLong
        n   == TrimSpace(SubSeq(raw, 1, Len(raw) - 1))
        f   == ParseFloat(n)
    IN  /\ Accepted => InRange(dmOut.v, max)
        /\ (CalledParseDM /\ Len(raw) >= 2 /\ IsDMNumber(n) /\ f.ok
                /\ AbsExceeds(ComputeLatLong(f.v), max))
           => dmOut.err # "nil"

\* C7: GLL re-encoding: Serialize of a decoded GLL frame emits the seven fields
\* in wire order (latitude, N/S, longitude, E/W, time, validity, mode), and
\* re-encoding "3110.2908,N,12123.2348,E,041139.000,A,A" reproduces its fields.
C7_GLLReencoded ==
    (pc = "serialized" /\ op = "GPGLL")
    => /\ Len(out) = 7
       /\ out[5] = Fields[5]
       /\ out[6] = Fields[6]
       /\ out[7] = Fields[7]
       /\ Fields = BaseFrame("GPGLL") => out = Fields

\* C8: Serialize is re-parseable: the field list Serialize builds from a parsed
\* sentence has the number of fields the same type's parse() requires.
C8_SerializeFieldCount == pc = "serialized" => Len(out) = Wanted(op)

\* C9: field-count gate: for every sentence type and every frame whose number of
\* fields differs from the required count, parse() returns the field-count
\* error (got, wanted), whatever the fields hold, having read no field and
\* assigned no typed field of the sentence.
C9_FieldCountGate ==
    (pc \in {"parsed", "panicked"} /\ Len(Fields) # Wanted(op))
    => /\ perr.kind = "field count"
       /\ perr.got = NatToStr(Len(Fields))
       /\ perr.want = NatToStr(Wanted(op))
       /\ sent = ZeroOf(op)

\* a frame of the wrong length with content in every field was refused
C9_Witness ==
    /\ pc = "parsed" /\ op = "GPGSA"
    /\ Len(Fields) = 18 /\ Fields[18] = "X"
    /\ perr.kind = "field count"

\* the ways a decimal integer k is written: plain, signed, zero-padded
Spellings(k) ==
    {sg \o PadZero(NatToStr(k), w) :
        sg \in {"", "+"} \cup (IF k = 0 THEN {"-"} ELSE {}), w \in 1..3}

\* C10: closed enumerations never default: each parser returns an error for
\* every token that denotes no member of its set (integers 0..2, integers 1..3,
\* letters M/A, letters N/S/E/W) and the member, with no error, for every token
\* that denotes one.
C10_ClosedEnums ==
    (pc = "done" /\ op \in EnumParsers)
    => CASE op = "ParseQualityIndicator" ->
              /\ (enumOut.err = "nil") <=> (\E k \in 0..2 : tok \in Spellings(k))
              /\ enumOut.err = "nil" => tok \in Spellings(enumOut.iv)
         [] op = "ParseFixStatus" ->
              /\ (enumOut.err = "nil") <=> (\E k \in 1..3 : tok \in Spellings(k))
              /\ enumOut.err = "nil" => tok \in Spellings(enumOut.iv)
         [] op = "ParseMode" ->
              /\ (enumOut.err = "nil") <=> (tok \in {"M", "A"})
              /\ enumOut.err = "nil" => enumOut.sv = tok
         [] OTHER ->
              /\ (enumOut.err = "nil") <=> (tok \in {"N", "S", "E", "W"})
              /\ enumOut.err = "nil" => enumOut.sv = tok

\* the fix status token "0", an integer outside 1..3, was handed to
\* ParseFixStatus and refused
C10_Witness ==
    /\ pc = "done" /\ op = "ParseFixStatus"
    /\ tok = "0" /\ enumOut.err # "nil"

\* C11: enumeration round trip: for every cardinal point v that
\* LatLong.CardinalPoint returns (North, South, East, West and the empty one of
\* the zero coordinate), ParseCardinalPoint(v.String()) returns v with no error.
C11_EnumRoundTrip ==
    (pc = "done" /\ op = "CardinalPoint")
    => /\ enumOut.err = "nil"
       /\ enumOut.sv = CardinalPoint(coord, isLat)

\* where the validity flag of a sentence type is
ValidIndex(t) == IF t = "GPGLL" THEN 5 ELSE 1

\* C12: the validity flag is a closed enumeration: decoding a GLL or RMC frame
\* whose validity field holds a token other than "A" and "V" fails with an error.
C12_ValidityClosed ==
    (pc = "parsed" /\ op \in {"GPGLL", "GPRMC"} /\ Len(Fields) = Wanted(op)
        /\ F(Fields, ValidIndex(op)) \notin {"A", "V"})
    => perr # NoErr

\* C13: errors name the offending field: when a typed extraction of GPDBT,
\* GPVTG, GPTXT, GPGLL or GPRMC parse() fails on the field at index i, the
\* error returned reports the raw content of that same field i.
C13_ErrorNamesField ==
    (pc \in {"parsed", "panicked"} /\ op \in {"GPDBT", "GPVTG", "GPTXT", "GPGLL", "GPRMC"}
        /\ perr.kind \in {"value", "panic"} /\ perr.index >= 0)
    => /\ perr.kind = "value"
       /\ perr.index = perr.at
       /\ perr.got = F(Fields, perr.at)

\* C14: differential station identifier: GPGGA.parse accepts every four-digit
\* zero-padded decimal station ID from "0000" to "1023" in field 13 and stores
\* its decimal value, and GPGGA.Serialize writes it back as the same string.
C14_StationID ==
    (op = "GPGGA" /\ Fields \in StationFrames)
    => /\ pc = "parsed"
          => /\ perr = NoErr
             /\ sent.DGPSStationID = [set |-> TRUE, v |-> StrToNat(F(Fields, 13))]
       /\ pc = "serialized" => F(out, 13) = F(Fields, 13)

\* the fixed literals the claim lists for a sentence type
Literals(t) ==
    CASE t = "GPVTG" -> (1 :> "T") @@ (3 :> "M") @@ (5 :> "N") @@ (7 :> "K")
      [] t = "GPDBT" -> (1 :> "f") @@ (3 :> "M") @@ (5 :> "F")
      [] OTHER       -> (9 :> "M") @@ (11 :> "M")
\* the listed indices of the frame that do not hold their literal
Mismatches(t, fs) == {i \in DOMAIN Literals(t) : F(fs, i) # Literals(t)[i]}

\* C15: fixed-literal gate: for GPVTG, GPDBT and GPGGA, parse() returns nil only
\* if every listed index holds its literal, and every frame with the right
\* field count in which a listed index holds another value is rejected with
\* a fixed-field error about one of those indices, whatever the other fields hold.
C15_FixedLiteralGate ==
    (pc \in {"parsed", "panicked"} /\ op \in {"GPVTG", "GPDBT", "GPGGA"}
        /\ Len(Fields) = Wanted(op))
    => /\ perr = NoErr => Mismatches(op, Fields) = {}
       /\ Mismatches(op, Fields) # {}
          => /\ perr.kind = "fixed field"
             /\ perr.at \in Mismatches(op, Fields)
             /\ perr.got = F(Fields, perr.at)
             /\ perr.want = Literals(op)[perr.at]
             /\ sent = ZeroOf(op)

\* a VTG frame whose only fault is the literal at index 7 was refused for it
C15_Witness ==
    /\ pc = "parsed" /\ op = "GPVTG" /\ Len(Fields) = 9
    /\ Mismatches(op, Fields) = {7}
    /\ perr.kind = "fixed field" /\ perr.at = 7 /\ perr.want = "K"

\* C16: the optional numeric fields of GGA follow empty-means-absent in both
\* directions: for a frame GPGGA.parse accepts, Serialize emits an empty HDOP
\* (index 7) iff the decoded HDOP field was empty and an empty altitude
\* (index 8) iff the decoded altitude field was empty, as it does for geoidal
\* separation, DGPS age and station ID (indices 10, 12, 13).
C16_EmptyMeansAbsent ==
    (pc = "serialized" /\ op = "GPGGA")
    => \A i \in {7, 8, 10, 12, 13} : (F(out, i) = "") <=> (F(Fields, i) = "")

\* one minute, in millionths of a second
MinuteOfSeconds == 60 * Scale

\* C17: DMS decomposition: for a coordinate l of either sign, DMS() returns
\* (d, m, s) with m the minutes of DM() truncated to an integer, 0 <= m <= 59,
\* the seconds 0 <= s < 60, and |d| + m/60 + s/3600 = |l|.
C17_DMSDecomposition ==
    (pc = "done" /\ op = "DMS")
    => /\ dms.m = DM(coord).m \div Scale
       /\ dms.m >= 0 /\ dms.m <= 59
       /\ dms.s >= 0 /\ dms.s < MinuteOfSeconds
       /\ (IF dms.d < 0 THEN 0 - dms.d ELSE dms.d) = coord.deg
       /\ dms.s = (coord.um % Scale) * 60

\* what parse() of the sentence type returns for the frame when the run-time
\* visits the fixed-field table in the order ord
ParseIn(t, fs, ord) ==
    CASE t = "GPVTG" -> ParseVTG(fs, ord)
      [] t = "GPDBT" -> ParseDBT(fs, ord)
      [] OTHER       -> ParseGGA(fs, ord)
FixedKeys(t) ==
    CASE t = "GPVTG" -> DOMAIN VTGFixed
      [] t = "GPDBT" -> DOMAIN DBTFixed
      [] OTHER       -> DOMAIN GGAFixed

\* C18: decoding is deterministic: the error and the sentence that parse() of
\* a VTG, DBT or GGA frame leaves are the ones it leaves for that frame in
\* every order in which the fixed-field table may be traversed.
C18_Deterministic ==
    (pc \in {"parsed", "panicked"} /\ op \in {"GPVTG", "GPDBT", "GPGGA"})
    => \A ord \in Orders(FixedKeys(op)) :
           /\ ParseIn(op, Fields, ord).err = perr
           /\ ParseIn(op, Fields, ord).s = sent

====
